---- MODULE Spec2Model ----
(***************************************************************************)
(* A model of the jobly company repository: the two SQL encoders           *)
(* (helpers/sql.js sqlForPartialUpdate, Company.parameterizeFilterQuery)   *)
(* and the Company data-access functions of models/company.js running     *)
(* against a companies table.                                              *)
(*                                                                         *)
(* Representation.                                                         *)
(*  - A JS string value is a sequence of one-character strings, so that    *)
(*    wrapping ('%' + s + '%'), lower-casing and ILIKE matching are        *)
(*    computed and not looked up.                                          *)
(*  - A bind value / column value is a tagged record: Null, Num(n), Str(s).*)
(*  - A JS object is the sequence of its <<key, value>> entries in         *)
(*    iteration order (keys distinct).                                     *)
(*  - SQL text that the code builds at run time (setCols, conds,           *)
(*    handleVarIdx) is a sequence of tokens; the store parses the tokens   *)
(*    again when it executes the statement.                                *)
(***************************************************************************)
EXTENDS Integers, Sequences, FiniteSets, TLC

VARIABLES companies, last, race

vars == <<companies, last, race>>

\* the value of race where no concurrent calls are modelled
NoRace == [primaryKey |-> FALSE, calls |-> <<>>]

----------------------------------------------------------------------------
(* Bounds *)

MaxFields == 2        \* most entries in an object handed to sqlForPartialUpdate
MaxEmployees == 2     \* employee counts range over 0..MaxEmployees
MaxCriteria == 3      \* most entries in a filter criteria object
MaxRows == 3          \* no create is started on a table of this many rows
NumCalls == 2         \* concurrent create calls in the race specification

----------------------------------------------------------------------------
(* Values *)

Null == [t |-> "null", n |-> 0, s |-> <<>>]
Num(n) == [t |-> "num", n |-> n, s |-> <<>>]
Str(s) == [t |-> "str", n |-> 0, s |-> s]

\* sequences over S of length 0..n
RECURSIVE SeqsUpTo(_, _)
SeqsUpTo(S, n) ==
  IF n = 0 THEN {<<>>}
  ELSE LET shorter == SeqsUpTo(S, n - 1)
       IN  shorter \cup {Append(q, e) : q \in {r \in shorter : Len(r) = n - 1}, e \in S}

----------------------------------------------------------------------------
(* JS objects: sequences of <<key, value>> entries, keys distinct *)

ObjectKeys(obj) == [i \in 1..Len(obj) |-> obj[i][1]]
ObjectValues(obj) == [i \in 1..Len(obj) |-> obj[i][2]]
HasKey(obj, k) == \E i \in 1..Len(obj) : obj[i][1] = k
GetKey(obj, k) == obj[CHOOSE i \in 1..Len(obj) : obj[i][1] = k][2]

DistinctKeys(obj) ==
  \A i, j \in 1..Len(obj) : obj[i][1] = obj[j][1] => i = j

\* all objects with at most n entries, keys in K, the value of key k in V[k]
Objects(K, V, n) ==
  {obj \in SeqsUpTo(UNION {{<<k, v>> : v \in V[k]} : k \in K}, n) : DistinctKeys(obj)}

\* Array.prototype.join
RECURSIVE Join(_, _)
Join(parts, sep) ==
  IF Len(parts) = 0 THEN <<>>
  ELSE IF Len(parts) = 1 THEN parts[1]
  ELSE parts[1] \o sep \o Join(Tail(parts), sep)

----------------------------------------------------------------------------
(* Reading built SQL text back *)

\* the pieces of a token sequence between the occurrences of the token sep
RECURSIVE SplitOn(_, _)
SplitOn(toks, sep) ==
  IF \A i \in 1..Len(toks) : toks[i] # sep
  THEN <<toks>>
  ELSE LET p == CHOOSE i \in 1..Len(toks) :
                  toks[i] = sep /\ \A j \in 1..(i - 1) : toks[j] # sep
       IN  <<SubSeq(toks, 1, p - 1)>> \o SplitOn(SubSeq(toks, p + 1, Len(toks)), sep)

\* "<column>"=$<n>
IsSetFragment(f) ==
  Len(f) = 6 /\ f[1] = "\"" /\ f[3] = "\"" /\ f[4] = "=" /\ f[5] = "$"

----------------------------------------------------------------------------
(* helpers/sql.js *)

\* the lookup without the fallback for a falsy entry (jsToSql[colName] ?? colName)
ColumnOf_Nullish(jsToSql, colName) ==
  IF colName \in DOMAIN jsToSql
  THEN jsToSql[colName]
  ELSE colName

\* jsToSql[colName] || colName : a missing entry reads as undefined and an
\* empty string is falsy, and both fall through to colName
ColumnOf(jsToSql, colName) ==
  IF colName \in DOMAIN jsToSql /\ jsToSql[colName] # ""
  THEN jsToSql[colName]
  ELSE colName

\* `"${col}"=$${n}`
SetFragment(col, n) == <<"\"", col, "\"", "=", "$", ToString(n)>>

\* the encoder without the check for an empty mapping
sqlForPartialUpdate_NoEmptyCheck(dataToUpdate, jsToSql) ==
  LET keys == ObjectKeys(dataToUpdate)
      cols == [i \in 1..Len(keys) |->
                 SetFragment(ColumnOf(jsToSql, keys[i]), (i - 1) + 1)]
  IN  [err |-> "none",
       setCols |-> Join(cols, <<", ">>),
       values |-> ObjectValues(dataToUpdate)]

\* the encoder with the array index used as the placeholder number
sqlForPartialUpdate_ZeroBased(dataToUpdate, jsToSql) ==
  LET keys == ObjectKeys(dataToUpdate)
      cols == [i \in 1..Len(keys) |->
                 SetFragment(ColumnOf(jsToSql, keys[i]), i - 1)]
  IN  IF Len(keys) = 0
      THEN [err |-> "BadRequestError", setCols |-> <<>>, values |-> <<>>]
      ELSE [err |-> "none",
            setCols |-> Join(cols, <<", ">>),
            values |-> ObjectValues(dataToUpdate)]

sqlForPartialUpdate(dataToUpdate, jsToSql) ==
  LET keys == ObjectKeys(dataToUpdate)
      \* the array index idx of the source is i - 1
      cols == [i \in 1..Len(keys) |->
                 SetFragment(ColumnOf(jsToSql, keys[i]), (i - 1) + 1)]
  IN  IF Len(keys) = 0
      THEN [err |-> "BadRequestError", setCols |-> <<>>, values |-> <<>>]
      ELSE [err |-> "none",
            setCols |-> Join(cols, <<", ">>),
            values |-> ObjectValues(dataToUpdate)]

----------------------------------------------------------------------------
(* Inputs of the encoder specification *)

FieldNames == {"name", "numEmployees", "foo"}
ColumnNames == {"num_employees", "n", ""}
FieldValues == [k \in FieldNames |-> {Null, Num(1), Str(<<"a">>)}]

\* a column map: any subset of the field names, each mapped to a column name
ColumnMaps == UNION {[D -> ColumnNames] : D \in SUBSET FieldNames}

InitSql ==
  /\ companies = <<>>
  /\ race = NoRace
  /\ \E F \in Objects(FieldNames, FieldValues, MaxFields), C \in ColumnMaps :
       last = [op |-> "input", data |-> F, jsToSql |-> C]

CallSqlForPartialUpdate ==
  /\ last.op = "input"
  /\ last' = [op |-> "sqlForPartialUpdate",
              data |-> last.data,
              jsToSql |-> last.jsToSql,
              out |-> sqlForPartialUpdate(last.data, last.jsToSql)]
  /\ UNCHANGED <<companies, race>>

NextSql == CallSqlForPartialUpdate

SpecSql == InitSql /\ [][NextSql]_vars

----------------------------------------------------------------------------
(* models/company.js: Company.parameterizeFilterQuery *)

\* `%${criteria.nameLike}%`
WrapLike(v) == Str(<<"%">> \o v.s \o <<"%">>)

\* `num_employees >= $${n}`, `num_employees <= $${n}`, `name ILIKE $${n}`
CondFragment(col, cmp, n) == <<col, cmp, "$", ToString(n)>>

\* the filter encoder numbering each placeholder with values.length
parameterizeFilterQuery_NoIncrement(criteria) ==
  LET conds0 == <<>>
      values0 == <<>>
      hasMin == HasKey(criteria, "minEmployees")
      conds1 == IF hasMin
                THEN Append(conds0, CondFragment("num_employees", ">=", Len(values0) + 1))
                ELSE conds0
      values1 == IF hasMin THEN Append(values0, GetKey(criteria, "minEmployees")) ELSE values0
      hasMax == HasKey(criteria, "maxEmployees")
      conds2 == IF hasMax
                THEN Append(conds1, CondFragment("num_employees", "<=", Len(values1)))
                ELSE conds1
      values2 == IF hasMax THEN Append(values1, GetKey(criteria, "maxEmployees")) ELSE values1
      hasLike == HasKey(criteria, "nameLike")
      conds3 == IF hasLike
                THEN Append(conds2, CondFragment("name", "ILIKE", Len(values2) + 1))
                ELSE conds2
      values3 == IF hasLike THEN Append(values2, WrapLike(GetKey(criteria, "nameLike"))) ELSE values2
  IN  [conds |-> Join(conds3, <<" AND ">>), values |-> values3]

parameterizeFilterQuery(criteria) ==
  LET conds0 == <<>>
      values0 == <<>>
      hasMin == HasKey(criteria, "minEmployees")
      conds1 == IF hasMin
                THEN Append(conds0, CondFragment("num_employees", ">=", Len(values0) + 1))
                ELSE conds0
      values1 == IF hasMin THEN Append(values0, GetKey(criteria, "minEmployees")) ELSE values0
      hasMax == HasKey(criteria, "maxEmployees")
      conds2 == IF hasMax
                THEN Append(conds1, CondFragment("num_employees", "<=", Len(values1) + 1))
                ELSE conds1
      values2 == IF hasMax THEN Append(values1, GetKey(criteria, "maxEmployees")) ELSE values1
      hasLike == HasKey(criteria, "nameLike")
      conds3 == IF hasLike
                THEN Append(conds2, CondFragment("name", "ILIKE", Len(values2) + 1))
                ELSE conds2
      values3 == IF hasLike THEN Append(values2, WrapLike(GetKey(criteria, "nameLike"))) ELSE values2
  IN  [conds |-> Join(conds3, <<" AND ">>), values |-> values3]

----------------------------------------------------------------------------
(* Inputs of the filter specification *)

CriteriaKeys == {"minEmployees", "maxEmployees", "nameLike", "handle"}
CriteriaValues ==
  [k \in CriteriaKeys |->
     IF k \in {"minEmployees", "maxEmployees"} THEN {Num(n) : n \in 0..MaxEmployees}
     ELSE IF k = "nameLike" THEN {Str(<<"c">>), Str(<<>>)}
     ELSE {Str(<<"c", "1">>)}]

FilterCriteria == Objects(CriteriaKeys, CriteriaValues, MaxCriteria)

InitFilter ==
  /\ companies = <<>>
  /\ race = NoRace
  /\ \E criteria \in FilterCriteria :
       last = [op |-> "input", criteria |-> criteria]

CallParameterizeFilterQuery ==
  /\ last.op = "input"
  /\ last' = [op |-> "parameterizeFilterQuery",
              criteria |-> last.criteria,
              out |-> parameterizeFilterQuery(last.criteria)]
  /\ UNCHANGED <<companies, race>>

NextFilter == CallParameterizeFilterQuery

SpecFilter == InitFilter /\ [][NextFilter]_vars

----------------------------------------------------------------------------
(* The store: the companies table and the statements company.js sends it.  *)
(* The table is the sequence of its rows; a row maps each column to a      *)
(* value.  A statement is executed on (table, params) and yields           *)
(* [err, rows, table]: "DbError" when the store rejects the statement.     *)

Columns == {"handle", "name", "description", "num_employees", "logo_url"}

\* SQL equality: never true of a NULL
SqlEq(a, b) == a.t # "null" /\ b.t # "null" /\ a = b

\* the number n of a placeholder written $n, 0 when params has no such entry
ParamNo(tok, params) ==
  IF \E n \in 1..Len(params) : ToString(n) = tok
  THEN CHOOSE n \in 1..Len(params) : ToString(n) = tok
  ELSE 0

DbRejects(table) == [err |-> "DbError", rows |-> <<>>, table |-> table]

\* the duplicate check looking the parameter up in the name column
DbSelectHandle_ByName(table, params) ==
  LET Match(r) == SqlEq(r.name, params[1])
      found == SelectSeq(table, Match)
  IN  [err |-> "none",
       rows |-> [i \in 1..Len(found) |-> [handle |-> found[i].handle]],
       table |-> table]

\* SELECT handle FROM companies WHERE handle = $1
DbSelectHandle(table, params) ==
  LET Match(r) == SqlEq(r.handle, params[1])
      found == SelectSeq(table, Match)
  IN  [err |-> "none",
       rows |-> [i \in 1..Len(found) |-> [handle |-> found[i].handle]],
       table |-> table]

\* INSERT INTO companies (handle, name, description, num_employees, logo_url)
\* VALUES ($1, $2, $3, $4, $5) RETURNING handle, name, description,
\* num_employees AS "numEmployees", logo_url AS "logoUrl"
DbInsertCompany(table, params) ==
  LET row == [handle |-> params[1],
              name |-> params[2],
              description |-> params[3],
              num_employees |-> params[4],
              logo_url |-> params[5]]
  IN  [err |-> "none",
       rows |-> <<[handle |-> row.handle,
                   name |-> row.name,
                   description |-> row.description,
                   numEmployees |-> row.num_employees,
                   logoUrl |-> row.logo_url]>>,
       table |-> Append(table, row)]

\* the lookup with the columns returned under their storage names
DbSelectCompany_NoAlias(table, params) ==
  LET Match(r) == SqlEq(r.handle, params[1])
  IN  [err |-> "none", rows |-> SelectSeq(table, Match), table |-> table]

\* SELECT handle, name, description, num_employees AS "numEmployees",
\* logo_url AS "logoUrl" FROM companies WHERE handle = $1
DbSelectCompany(table, params) ==
  LET Match(r) == SqlEq(r.handle, params[1])
      found == SelectSeq(table, Match)
  IN  [err |-> "none",
       rows |-> [i \in 1..Len(found) |->
                   [handle |-> found[i].handle,
                    name |-> found[i].name,
                    description |-> found[i].description,
                    numEmployees |-> found[i].num_employees,
                    logoUrl |-> found[i].logo_url]],
       table |-> table]

\* UPDATE companies SET ${setCols} WHERE handle = ${handleVarIdx}
\* RETURNING handle, name, description, num_employees AS "numEmployees",
\* logo_url AS "logoUrl"
\* The store reads the SET list and the WHERE placeholder from the text.  It
\* rejects a malformed assignment, an unknown column, a column assigned
\* twice, and bind values that are not exactly the placeholders $1..$n used.
DbUpdateCompany(table, setCols, handleVarIdx, params) ==
  LET frags == SplitOn(setCols, ", ")
      Slot(k) == ParamNo(frags[k][6], params)
      whereNo == ParamNo(handleVarIdx[2], params)
      wellFormed ==
        /\ \A k \in 1..Len(frags) :
             IsSetFragment(frags[k]) /\ frags[k][2] \in Columns /\ Slot(k) # 0
        /\ \A k, l \in 1..Len(frags) : frags[k][2] = frags[l][2] => k = l
        /\ Len(handleVarIdx) = 2 /\ handleVarIdx[1] = "$" /\ whereNo # 0
        /\ {Slot(k) : k \in 1..Len(frags)} \cup {whereNo} = 1..Len(params)
      Match(r) == SqlEq(r.handle, params[whereNo])
      Assigned(r) ==
        [c \in Columns |->
           IF \E k \in 1..Len(frags) : frags[k][2] = c
           THEN params[Slot(CHOOSE k \in 1..Len(frags) : frags[k][2] = c)]
           ELSE r[c]]
  IN  IF ~wellFormed THEN DbRejects(table)
      ELSE [err |-> "none",
            rows |-> LET hit == SelectSeq(table, Match)
                     IN  [i \in 1..Len(hit) |->
                            LET r == Assigned(hit[i])
                            IN  [handle |-> r.handle,
                                 name |-> r.name,
                                 description |-> r.description,
                                 numEmployees |-> r.num_employees,
                                 logoUrl |-> r.logo_url]],
            table |-> [i \in 1..Len(table) |->
                         IF Match(table[i]) THEN Assigned(table[i]) ELSE table[i]]]

\* the delete without its WHERE clause
DbDeleteCompany_NoWhere(table, params) ==
  [err |-> "none",
   rows |-> [i \in 1..Len(table) |-> [handle |-> table[i].handle]],
   table |-> <<>>]

\* DELETE FROM companies WHERE handle = $1 RETURNING handle
DbDeleteCompany(table, params) ==
  LET Match(r) == SqlEq(r.handle, params[1])
      Keep(r) == ~Match(r)
      gone == SelectSeq(table, Match)
  IN  [err |-> "none",
       rows |-> [i \in 1..Len(gone) |-> [handle |-> gone[i].handle]],
       table |-> SelectSeq(table, Keep)]

\* LIKE: % stands for any run of characters, _ for any one character
RECURSIVE Like(_, _)
Like(s, pattern) ==
  IF Len(pattern) = 0 THEN Len(s) = 0
  ELSE IF pattern[1] = "%"
       THEN Like(s, Tail(pattern)) \/ (Len(s) > 0 /\ Like(Tail(s), pattern))
  ELSE IF pattern[1] = "_"
       THEN Len(s) > 0 /\ Like(Tail(s), Tail(pattern))
  ELSE Len(s) > 0 /\ s[1] = pattern[1] /\ Like(Tail(s), Tail(pattern))

\* lower-casing, on an alphabet whose only upper-case letter is C
Lower(s) == [i \in 1..Len(s) |-> IF s[i] = "C" THEN "c" ELSE s[i]]

\* ILIKE: LIKE without regard to case
ILike(s, pattern) == Like(Lower(s), Lower(pattern))

\* text order, character by character by code point
CharCode == [c \in {"1", "C", "c", "d", "u"} |->
               IF c = "1" THEN 49 ELSE IF c = "C" THEN 67 ELSE IF c = "c" THEN 99
               ELSE IF c = "d" THEN 100 ELSE 117]

RECURSIVE TextBefore(_, _)
TextBefore(a, b) ==
  IF Len(b) = 0 THEN FALSE
  ELSE IF Len(a) = 0 THEN TRUE
  ELSE IF a[1] # b[1] THEN CharCode[a[1]] < CharCode[b[1]]
  ELSE TextBefore(Tail(a), Tail(b))

\* ORDER BY name: every arrangement of rows in which no row precedes a row
\* of a smaller name (rows of equal names come in any order)
OrderByName(rows) ==
  LET n == Len(rows)
      perms == {f \in [1..n -> 1..n] : \A i, j \in 1..n : f[i] = f[j] => i = j}
  IN  {[i \in 1..n |-> rows[f[i]]] : f \in
         {g \in perms : \A i, j \in 1..n :
            i < j => ~TextBefore(rows[g[j]].name.s, rows[g[i]].name.s)}}

\* SELECT handle, name, description, num_employees AS "numEmployees",
\* logo_url AS "logoUrl" FROM companies ORDER BY name
\* (the set of results the store may give)
DbSelectAllCompanies(table) ==
  {[err |-> "none",
    rows |-> [i \in 1..Len(sorted) |->
                [handle |-> sorted[i].handle,
                 name |-> sorted[i].name,
                 description |-> sorted[i].description,
                 numEmployees |-> sorted[i].num_employees,
                 logoUrl |-> sorted[i].logo_url]],
    table |-> table] : sorted \in OrderByName(table)}

\* one condition of a WHERE clause on a row: true only of non-null operands
CondHolds(r, frag, params) ==
  LET x == r[frag[1]]
      y == params[ParamNo(frag[4], params)]
  IN  IF frag[2] = ">=" THEN x.t = "num" /\ y.t = "num" /\ x.n >= y.n
      ELSE IF frag[2] = "<=" THEN x.t = "num" /\ y.t = "num" /\ x.n <= y.n
      ELSE x.t = "str" /\ y.t = "str" /\ ILike(x.s, y.s)

\* SELECT handle, name, description, num_employees AS "numEmployees",
\* logo_url AS "logoUrl" FROM companies WHERE ${conds} ORDER BY name
\* The store reads the conditions from the text.  It rejects a WHERE clause
\* with nothing in it, a malformed condition, a comparison of a number
\* column with text or a pattern match against a number, and bind values
\* that are not exactly the placeholders $1..$n used.
DbSelectCompaniesWhere(table, conds, params) ==
  LET frags == SplitOn(conds, " AND ")
      Slot(k) == ParamNo(frags[k][4], params)
      wellFormed ==
        /\ \A k \in 1..Len(frags) :
             /\ Len(frags[k]) = 4
             /\ frags[k][1] \in Columns
             /\ frags[k][2] \in {">=", "<=", "ILIKE"}
             /\ frags[k][3] = "$"
             /\ Slot(k) # 0
             /\ frags[k][2] = "ILIKE" => params[Slot(k)].t \in {"str", "null"}
             /\ frags[k][2] # "ILIKE" => params[Slot(k)].t \in {"num", "null"}
        /\ {Slot(k) : k \in 1..Len(frags)} = 1..Len(params)
      Match(r) == \A k \in 1..Len(frags) : CondHolds(r, frags[k], params)
  IN  IF ~wellFormed THEN {DbRejects(table)}
      ELSE {[err |-> "none",
             rows |-> [i \in 1..Len(sorted) |->
                         [handle |-> sorted[i].handle,
                          name |-> sorted[i].name,
                          description |-> sorted[i].description,
                          numEmployees |-> sorted[i].num_employees,
                          logoUrl |-> sorted[i].logo_url]],
             table |-> table] : sorted \in OrderByName(SelectSeq(table, Match))}

----------------------------------------------------------------------------
(* models/company.js: the data-access functions.  Each is a function of    *)
(* the table and its arguments and yields [err, ret, queries, table]: the  *)
(* error thrown ("none" when it returns), the value returned, the          *)
(* statements sent to the store in order, and the table it leaves.         *)

NoValue == <<>>

Threw(err, queries, table) ==
  [err |-> err, ret |-> NoValue, queries |-> queries, table |-> table]

\* create without the duplicate check
create_NoDuplicateCheck(table, company) ==
  LET params == <<company.handle, company.name, company.description,
                  company.numEmployees, company.logoUrl>>
      result == DbInsertCompany(table, params)
  IN  [err |-> "none",
       ret |-> result.rows[1],
       queries |-> <<[kind |-> "INSERT", params |-> params]>>,
       table |-> result.table]

create(table, company) ==
  LET duplicateCheck == DbSelectHandle(table, <<company.handle>>)
      q1 == [kind |-> "SELECT", params |-> <<company.handle>>]
      params == <<company.handle, company.name, company.description,
                  company.numEmployees, company.logoUrl>>
      result == DbInsertCompany(duplicateCheck.table, params)
      q2 == [kind |-> "INSERT", params |-> params]
  IN  IF Len(duplicateCheck.rows) > 0
      THEN Threw("BadRequestError", <<q1>>, duplicateCheck.table)
      ELSE [err |-> "none",
            ret |-> result.rows[1],
            queries |-> <<q1, q2>>,
            table |-> result.table]

get(table, handle) ==
  LET companyRes == DbSelectCompany(table, <<handle>>)
      q1 == [kind |-> "SELECT", params |-> <<handle>>]
  IN  IF Len(companyRes.rows) = 0
      THEN Threw("NotFoundError", <<q1>>, companyRes.table)
      ELSE [err |-> "none",
            ret |-> companyRes.rows[1],
            queries |-> <<q1>>,
            table |-> companyRes.table]

\* the column map Company.update hands to sqlForPartialUpdate
CompanyJsToSql == [numEmployees |-> "num_employees", logoUrl |-> "logo_url"]

\* update with the handle placeholder numbered values.length
update_HandleIdxOffByOne(table, handle, data) ==
  LET enc == sqlForPartialUpdate(data, CompanyJsToSql)
      handleVarIdx == <<"$", ToString(Len(enc.values))>>
      params == enc.values \o <<handle>>
      result == DbUpdateCompany(table, enc.setCols, handleVarIdx, params)
      q1 == [kind |-> "UPDATE", setCols |-> enc.setCols,
             handleVarIdx |-> handleVarIdx, params |-> params]
  IN  IF enc.err # "none" THEN Threw(enc.err, <<>>, table)
      ELSE IF result.err # "none" THEN Threw(result.err, <<q1>>, result.table)
      ELSE IF Len(result.rows) = 0 THEN Threw("NotFoundError", <<q1>>, result.table)
      ELSE [err |-> "none",
            ret |-> result.rows[1],
            queries |-> <<q1>>,
            table |-> result.table]

update(table, handle, data) ==
  LET enc == sqlForPartialUpdate(data, CompanyJsToSql)
      handleVarIdx == <<"$", ToString(Len(enc.values) + 1)>>
      params == enc.values \o <<handle>>
      result == DbUpdateCompany(table, enc.setCols, handleVarIdx, params)
      q1 == [kind |-> "UPDATE", setCols |-> enc.setCols,
             handleVarIdx |-> handleVarIdx, params |-> params]
  IN  IF enc.err # "none" THEN Threw(enc.err, <<>>, table)
      ELSE IF result.err # "none" THEN Threw(result.err, <<q1>>, result.table)
      ELSE IF Len(result.rows) = 0 THEN Threw("NotFoundError", <<q1>>, result.table)
      ELSE [err |-> "none",
            ret |-> result.rows[1],
            queries |-> <<q1>>,
            table |-> result.table]

\* remove without the check of the deleted row
remove_NoNotFound(table, handle) ==
  LET result == DbDeleteCompany(table, <<handle>>)
      q1 == [kind |-> "DELETE", params |-> <<handle>>]
  IN  [err |-> "none",
       ret |-> NoValue,
       queries |-> <<q1>>,
       table |-> result.table]

remove(table, handle) ==
  LET result == DbDeleteCompany(table, <<handle>>)
      q1 == [kind |-> "DELETE", params |-> <<handle>>]
  IN  IF Len(result.rows) = 0
      THEN Threw("NotFoundError", <<q1>>, result.table)
      ELSE [err |-> "none",
            ret |-> NoValue,
            queries |-> <<q1>>,
            table |-> result.table]

\* the set of outcomes of findAll: one for each order the store may give
\* to rows of equal names
findAll(table) ==
  {[err |-> "none",
    ret |-> companiesRes.rows,
    queries |-> <<[kind |-> "SELECT", conds |-> <<>>, params |-> <<>>]>>,
    table |-> companiesRes.table] : companiesRes \in DbSelectAllCompanies(table)}

\* the set of outcomes of findFiltered
findFiltered(table, criteria) ==
  LET pq == parameterizeFilterQuery(criteria)
      q1 == [kind |-> "SELECT WHERE", conds |-> pq.conds, params |-> pq.values]
  IN  {IF companiesRes.err # "none"
       THEN Threw(companiesRes.err, <<q1>>, companiesRes.table)
       ELSE [err |-> "none",
             ret |-> companiesRes.rows,
             queries |-> <<q1>>,
             table |-> companiesRes.table]
         : companiesRes \in DbSelectCompaniesWhere(table, pq.conds, pq.values)}

----------------------------------------------------------------------------
(* The repository specification: calls made one after another. *)

Handles == {Str(<<"c", "1">>), Str(<<"c", "2">>)}
Names == {Str(<<"C", "1">>), Str(<<"c">>)}
Descriptions == {Str(<<"d">>)}
EmployeeCounts == {Null} \cup {Num(n) : n \in 0..MaxEmployees}
LogoUrls == {Null, Str(<<"u">>)}

\* the company objects handed to create
NewCompanies ==
  [handle : Handles, name : Names, description : Descriptions,
   numEmployees : EmployeeCounts, logoUrl : LogoUrls]

\* the data objects handed to update
UpdateFields == {"name", "description", "numEmployees", "logoUrl"}
UpdateValues ==
  [k \in UpdateFields |->
     IF k = "name" THEN Names
     ELSE IF k = "description" THEN Descriptions
     ELSE IF k = "numEmployees" THEN EmployeeCounts
     ELSE LogoUrls]
UpdateData == Objects(UpdateFields, UpdateValues, MaxFields)

Idle == [op |-> "idle"]

Init ==
  /\ companies = <<>>
  /\ last = Idle
  /\ race = NoRace

\* a call runs to completion on the current table
Completes(op, arg, out) ==
  /\ last' = [op |-> op, arg |-> arg, before |-> companies,
              err |-> out.err, ret |-> out.ret, queries |-> out.queries]
  /\ companies' = out.table
  /\ UNCHANGED race

Create ==
  /\ last.op = "idle"
  /\ Len(companies) < MaxRows
  /\ \E company \in NewCompanies :
       Completes("create", company, create(companies, company))

FindAll ==
  /\ last.op = "idle"
  /\ \E out \in findAll(companies) :
       Completes("findAll", [none |-> TRUE], out)

FindFiltered ==
  /\ last.op = "idle"
  /\ \E criteria \in FilterCriteria :
       \E out \in findFiltered(companies, criteria) :
         Completes("findFiltered", [criteria |-> criteria], out)

Get ==
  /\ last.op = "idle"
  /\ \E handle \in Handles :
       Completes("get", [handle |-> handle], get(companies, handle))

Update ==
  /\ last.op = "idle"
  /\ \E handle \in Handles, data \in UpdateData :
       Completes("update", [handle |-> handle, data |-> data],
                 update(companies, handle, data))

Remove ==
  /\ last.op = "idle"
  /\ \E handle \in Handles :
       Completes("remove", [handle |-> handle], remove(companies, handle))

\* the route handler answers the request and the next one can be served
Respond ==
  /\ last.op # "idle"
  /\ last' = Idle
  /\ UNCHANGED <<companies, race>>

Next == Create \/ FindAll \/ FindFiltered \/ Get \/ Update \/ Remove \/ Respond

Spec == Init /\ [][Next]_vars

----------------------------------------------------------------------------
(* The race specification: NumCalls calls of Company.create in flight at   *)
(* once.  create awaits the store twice, for the duplicate check and for   *)
(* the insert, with no transaction around the two, so the calls interleave *)
(* at the awaits.  Whether the companies table has a primary key on handle *)
(* is a property of the schema the store was set up with: both cases are   *)
(* modelled, race.primaryKey telling which one holds.                      *)

\* the INSERT of create on a table that may have a primary key on handle:
\* the store rejects a row whose handle is already there
DbInsertCompanyKeyed(table, params, primaryKey) ==
  IF primaryKey /\ \E i \in 1..Len(table) : SqlEq(table[i].handle, params[1])
  THEN DbRejects(table)
  ELSE DbInsertCompany(table, params)

\* create up to its second await: the duplicate check and its throw
createCheck(table, company) ==
  LET duplicateCheck == DbSelectHandle(table, <<company.handle>>)
  IN  IF Len(duplicateCheck.rows) > 0
      THEN [err |-> "BadRequestError", table |-> duplicateCheck.table]
      ELSE [err |-> "none", table |-> duplicateCheck.table]

\* the rest of create with the duplicate check made again in the same round-trip
\* as the insert
createInsert_Rechecks(table, company, primaryKey) ==
  LET params == <<company.handle, company.name, company.description,
                  company.numEmployees, company.logoUrl>>
      result == DbInsertCompanyKeyed(table, params, primaryKey)
  IN  IF Len(DbSelectHandle(table, <<company.handle>>).rows) > 0
      THEN [err |-> "BadRequestError", ret |-> NoValue, table |-> table]
      ELSE IF result.err # "none"
      THEN [err |-> result.err, ret |-> NoValue, table |-> result.table]
      ELSE [err |-> "none", ret |-> result.rows[1], table |-> result.table]

\* the rest of create: the insert and the return of the inserted row; an
\* error of the store propagates as it is
createInsert(table, company, primaryKey) ==
  LET params == <<company.handle, company.name, company.description,
                  company.numEmployees, company.logoUrl>>
      result == DbInsertCompanyKeyed(table, params, primaryKey)
  IN  IF result.err # "none"
      THEN [err |-> result.err, ret |-> NoValue, table |-> result.table]
      ELSE [err |-> "none", ret |-> result.rows[1], table |-> result.table]

\* the company objects of the racing calls
RaceCompanies ==
  {c \in NewCompanies : c.numEmployees = Null /\ c.logoUrl = Null}

Calls == 1..NumCalls

InitRace ==
  /\ companies = <<>>
  /\ last = Idle
  /\ \E primaryKey \in BOOLEAN, args \in [Calls -> RaceCompanies] :
       race = [primaryKey |-> primaryKey,
               calls |-> [p \in Calls |->
                            [pc |-> "check", company |-> args[p],
                             err |-> "none", ret |-> NoValue]]]

\* a call gets the answer of its duplicate check
CreateCheck ==
  \E p \in Calls :
    /\ race.calls[p].pc = "check"
    /\ LET out == createCheck(companies, race.calls[p].company)
       IN  /\ race' = [race EXCEPT
                        !.calls[p].pc = IF out.err = "none" THEN "insert" ELSE "done",
                        !.calls[p].err = out.err]
           /\ companies' = out.table
    /\ UNCHANGED last

\* a call that passed the duplicate check gets the answer of its insert
CreateInsert ==
  \E p \in Calls :
    /\ race.calls[p].pc = "insert"
    /\ LET out == createInsert(companies, race.calls[p].company, race.primaryKey)
       IN  /\ race' = [race EXCEPT
                        !.calls[p].pc = "inserted",
                        !.calls[p].err = out.err,
                        !.calls[p].ret = out.ret]
           /\ companies' = out.table
    /\ UNCHANGED last

NextRace == CreateCheck \/ CreateInsert

SpecRace == InitRace /\ [][NextRace]_vars

----------------------------------------------------------------------------
(* Claims about sqlForPartialUpdate (specification SpecSql) *)

SqlCalled == last.op = "sqlForPartialUpdate"

\* C1: for a non-empty field mapping F, setCols is one '"<column>"=$<n>'
\* fragment per entry of F joined by ', ', the k-th fragment carrying the
\* placeholder $k (so the placeholders are 1..|F| in order), and values has
\* |F| elements, the k-th being the value of the k-th entry of F exactly as
\* given (a null included).
C1_SetColsAlignedWithValues ==
  (SqlCalled /\ Len(last.data) > 0) =>
    LET frags == SplitOn(last.out.setCols, ", ")
    IN  /\ last.out.err = "none"
        /\ Len(frags) = Len(last.data)
        /\ Len(last.out.values) = Len(last.data)
        /\ \A k \in 1..Len(last.data) :
             /\ IsSetFragment(frags[k])
             /\ frags[k][6] = ToString(k)
             /\ last.out.values[k] = last.data[k][2]

\* a two-entry mapping whose second value is null has been encoded
C1_Witness ==
  /\ SqlCalled
  /\ Len(last.data) = 2
  /\ last.data[2][2] = Null
  /\ last.out.values = <<last.data[1][2], Null>>

\* the column name written in the k-th fragment of the last encoding
WrittenColumn(k) == SplitOn(last.out.setCols, ", ")[k][2]

----------------------------------------------------------------------------
(* Claims about parameterizeFilterQuery (specification SpecFilter) *)

FilterCalled == last.op = "parameterizeFilterQuery"

\* the recognized keys in their fixed order, with the column and comparison
\* each one filters on
FilterOrder == <<"minEmployees", "maxEmployees", "nameLike">>
FilterText ==
  [k \in {"minEmployees", "maxEmployees", "nameLike"} |->
     IF k = "minEmployees" THEN <<"num_employees", ">=">>
     ELSE IF k = "maxEmployees" THEN <<"num_employees", "<=">>
     ELSE <<"name", "ILIKE">>]

\* position among the recognized keys present in criteria, in the fixed order
FilterRank(criteria, i) ==
  Cardinality({j \in 1..i : HasKey(criteria, FilterOrder[j])})

\* C2: whatever the key order of criteria, conds is the fragments of the
\* recognized keys present, joined by ' AND ' in the order minEmployees,
\* maxEmployees, nameLike, with placeholders 1..k, and values has k elements
\* aligned with them: min/max unchanged, nameLike wrapped in '%'; with no
\* recognized key conds is '' and values is [].
C2_FilterFixedOrder ==
  FilterCalled =>
    LET criteria == last.criteria
        k == FilterRank(criteria, 3)
        frags == SplitOn(last.out.conds, " AND ")
    IN  /\ Len(last.out.values) = k
        /\ k = 0 => last.out.conds = <<>>
        /\ k > 0 => Len(frags) = k
        /\ \A i \in 1..3 :
             HasKey(criteria, FilterOrder[i]) =>
               LET r == FilterRank(criteria, i)
                   given == GetKey(criteria, FilterOrder[i])
               IN  /\ frags[r] = FilterText[FilterOrder[i]] \o <<"$", ToString(r)>>
                   /\ FilterOrder[i] # "nameLike" => last.out.values[r] = given
                   /\ FilterOrder[i] = "nameLike" =>
                        /\ last.out.values[r].t = "str"
                        /\ last.out.values[r].s = <<"%">> \o given.s \o <<"%">>

\* nameLike given before maxEmployees, minEmployees absent: maxEmployees
\* still takes $1 and nameLike $2
C2_Witness ==
  /\ FilterCalled
  /\ ObjectKeys(last.criteria) = <<"nameLike", "maxEmployees">>
  /\ last.out.conds = <<"num_employees", "<=", "$", "1", " AND ", "name", "ILIKE", "$", "2">>
  /\ last.out.values[2].s = <<"%">> \o GetKey(last.criteria, "nameLike").s \o <<"%">>

----------------------------------------------------------------------------
(* Claims about the repository (specification Spec) *)

HasRow(table, handle) == \E i \in 1..Len(table) : table[i].handle = handle
RowOf(table, handle) == table[CHOOSE i \in 1..Len(table) : table[i].handle = handle]
RowCount(table, handle) ==
  Cardinality({i \in 1..Len(table) : table[i].handle = handle})

\* C4: Company.update(handle, {}) fails with the BadRequestError of
\* sqlForPartialUpdate, which throws for an empty mapping under every column
\* map, before any statement is sent to the store, and the table is as it was.
C4_EmptyUpdateRejected ==
  /\ \A C \in ColumnMaps : sqlForPartialUpdate(<<>>, C).err = "BadRequestError"
  /\ (last.op = "update" /\ Len(last.arg.data) = 0) =>
       /\ last.err = "BadRequestError"
       /\ last.queries = <<>>
       /\ companies = last.before

\* an empty update of a handle that has a row
C4_Witness ==
  /\ last.op = "update"
  /\ Len(last.arg.data) = 0
  /\ HasRow(last.before, last.arg.handle)
  /\ last.err = "BadRequestError"

\* C5: a create whose handle already has a row fails with BadRequestError
\* without sending an INSERT, and leaves the table as it was: one row for
\* that handle, the row that was there.
C5_DuplicateCreateRejected ==
  (last.op = "create" /\ HasRow(last.before, last.arg.handle)) =>
    /\ last.err = "BadRequestError"
    /\ \A i \in 1..Len(last.queries) : last.queries[i].kind # "INSERT"
    /\ companies = last.before
    /\ RowCount(companies, last.arg.handle) = 1

\* a second create of a handle, with another name than the stored one
C5_Witness ==
  /\ last.op = "create"
  /\ HasRow(last.before, last.arg.handle)
  /\ RowOf(last.before, last.arg.handle).name # last.arg.name
  /\ last.err = "BadRequestError"
  /\ RowOf(companies, last.arg.handle).name # last.arg.name

\* C6: get, update with non-empty data, and remove of a handle without a row
\* fail with NotFoundError and leave the table as it was.
C6_MissingHandleNotFound ==
  ( /\ last.op \in {"get", "update", "remove"}
    /\ ~HasRow(last.before, last.arg.handle)
    /\ last.op = "update" => Len(last.arg.data) > 0 ) =>
    /\ last.err = "NotFoundError"
    /\ companies = last.before

\* a remove of a handle without a row, while another handle has one
C6_Witness ==
  /\ last.op = "remove"
  /\ ~HasRow(last.before, last.arg.handle)
  /\ Len(last.before) = 1
  /\ last.err = "NotFoundError"

FieldColumn ==
  [f \in UpdateFields |->
     IF f = "numEmployees" THEN "num_employees"
     ELSE IF f = "logoUrl" THEN "logo_url"
     ELSE f]

\* C8: update(h, data) of a handle with a row and non-empty data binds h as
\* the last parameter, at index (number of SET values + 1), sets in row h the
\* supplied fields to the supplied values, leaves its handle, its other
\* fields and all other rows as they were, and returns row h as it then is.
C8_PartialUpdateFrame ==
  ( /\ last.op = "update"
    /\ HasRow(last.before, last.arg.handle)
    /\ Len(last.arg.data) > 0 ) =>
    LET h == last.arg.handle
        data == last.arg.data
        n == Len(data)
        q == last.queries[1]
    IN  /\ last.err = "none"
        /\ Len(last.queries) = 1
        /\ q.handleVarIdx = <<"$", ToString(n + 1)>>
        /\ Len(q.params) = n + 1
        /\ q.params[n + 1] = h
        /\ Len(companies) = Len(last.before)
        /\ \A i \in 1..Len(companies) :
             IF last.before[i].handle # h
             THEN companies[i] = last.before[i]
             ELSE /\ companies[i].handle = h
                  /\ \A f \in UpdateFields :
                       companies[i][FieldColumn[f]] =
                         IF HasKey(data, f) THEN GetKey(data, f)
                         ELSE last.before[i][FieldColumn[f]]
        /\ last.ret = [handle |-> h,
                       name |-> RowOf(companies, h).name,
                       description |-> RowOf(companies, h).description,
                       numEmployees |-> RowOf(companies, h).num_employees,
                       logoUrl |-> RowOf(companies, h).logo_url]

\* an update of logoUrl then name, both to new values, in a table of two
\* rows: numEmployees stays
C8_Witness ==
  /\ last.op = "update"
  /\ last.err = "none"
  /\ Len(last.before) = 2
  /\ ObjectKeys(last.arg.data) = <<"logoUrl", "name">>
  /\ RowOf(companies, last.arg.handle).name # RowOf(last.before, last.arg.handle).name
  /\ RowOf(companies, last.arg.handle).logo_url # RowOf(last.before, last.arg.handle).logo_url
  /\ RowOf(companies, last.arg.handle).num_employees = Num(1)

\* C9 as stated: findFiltered with none of the recognized keys in criteria
\* does not send a WHERE clause made of the empty string, and returns all
\* companies ordered by name, as findAll does.
C9_Original ==
  ( /\ last.op = "findFiltered"
    /\ \A k \in {"minEmployees", "maxEmployees", "nameLike"} :
         ~HasKey(last.arg.criteria, k) ) =>
    /\ last.err = "none"
    /\ \A i \in 1..Len(last.queries) :
         ~(last.queries[i].kind = "SELECT WHERE" /\ last.queries[i].conds = <<>>)
    /\ last.ret \in {out.ret : out \in findAll(last.before)}

\* C10: remove(h) of a handle with a row deletes the row of h and no other;
\* from then on, as long as no create(h) is made, h has no row and get(h)
\* fails with NotFoundError.
C10_RemoveThenNotFound ==
  [][ /\ (last'.op = "remove" /\ HasRow(companies, last'.arg.handle)) =>
           /\ last'.err = "none"
           /\ Len(companies') = Len(companies) - 1
           /\ companies' = SelectSeq(companies, LAMBDA r : r.handle # last'.arg.handle)
      /\ \A h \in Handles :
           (~HasRow(companies, h) /\ ~(last'.op = "create" /\ last'.arg.handle = h)) =>
             /\ ~HasRow(companies', h)
             /\ get(companies', h).err = "NotFoundError"
    ]_vars

\* one of two rows has been removed
C10_Witness ==
  /\ last.op = "remove"
  /\ last.err = "none"
  /\ Len(last.before) = 2
  /\ Len(companies) = 1
  /\ ~HasRow(companies, last.arg.handle)

----------------------------------------------------------------------------
(* Claims about concurrent creates (specification SpecRace) *)

\* the calls for handle h that have passed the duplicate check, and those of
\* them whose insert has been answered
PastCheck(h) ==
  {p \in Calls : race.calls[p].company.handle = h
                 /\ race.calls[p].pc \in {"insert", "inserted"}}
Answered(h) == {p \in PastCheck(h) : race.calls[p].pc = "inserted"}

\* C11: the duplicate check and the insert of create are two round-trips
\* with nothing holding the table between them: calls for the same new
\* handle can all be past the check at once, a call past the check never
\* fails with BadRequestError, each of them attempts its insert, and the
\* inserts add a row apiece unless the table has a primary key, in which
\* case the store rejects all but the first.
C11_CheckThenInsertNotAtomic ==
  \A h \in Handles :
    /\ \A p \in PastCheck(h) : race.calls[p].err # "BadRequestError"
    /\ ~race.primaryKey =>
         /\ RowCount(companies, h) = Cardinality(Answered(h))
         /\ \A p \in Answered(h) : race.calls[p].err = "none"
    /\ race.primaryKey =>
         /\ RowCount(companies, h) = IF Answered(h) = {} THEN 0 ELSE 1
         /\ Cardinality({p \in Answered(h) : race.calls[p].err = "none"})
              = RowCount(companies, h)
         /\ \A p \in Answered(h) : race.calls[p].err \in {"none", "DbError"}

\* two calls for the same handle are both past the duplicate check, neither
\* has failed, and the handle has no row yet
C11_Witness ==
  /\ race.calls # <<>>
  /\ race.calls[1].company.handle = race.calls[2].company.handle
  /\ race.calls[1].pc = "insert"
  /\ race.calls[2].pc = "insert"
  /\ race.calls[1].err = "none"
  /\ race.calls[2].err = "none"
  /\ ~HasRow(companies, race.calls[1].company.handle)

----------------------------------------------------------------------------
(* Claims about sequences of repository calls (specification Spec) *)

\* C12: after any sequence of create, update (data over name, description,
\* numEmployees, logoUrl) and remove calls made one after another from the
\* empty table, whether they succeed or fail, no two rows of the table have
\* the same handle, and an update leaves every row under the handle it had.
C12_OneRowPerHandle ==
  /\ \A i, j \in 1..Len(companies) :
       companies[i].handle = companies[j].handle => i = j
  /\ last.op = "update" =>
       /\ Len(companies) = Len(last.before)
       /\ \A i \in 1..Len(companies) : companies[i].handle = last.before[i].handle

\* an update has changed a row of a table of two rows
C12_Witness ==
  /\ last.op = "update"
  /\ last.err = "none"
  /\ Len(companies) = 2
  /\ companies # last.before
  /\ companies[1].handle # companies[2].handle

====
